---- MODULE Spec2Model ----
(***************************************************************************)
(* pwndbg-mcp: the debugger session controller (AsyncGdbController) and    *)
(* the tool layer that owns the module-level controller.                   *)
(*                                                                         *)
(* Concurrency model.  Tool calls are asyncio tasks on one event loop: a   *)
(* task runs from one await to the next without any other task running     *)
(* (cur is the task holding the loop, ready the loop's FIFO of runnable    *)
(* tasks).  Every controller owns a ThreadPoolExecutor whose worker thread *)
(* runs concurrently with the loop: it takes jobs from the executor's FIFO *)
(* queue, runs them, and wakes the awaiting task when a job has returned.  *)
(*                                                                         *)
(* The target I/O tools run their PTY access on threads of the loop's       *)
(* default executor, one thread per call, concurrently with everything     *)
(* else; each line of such a function that touches the PTY is one step.    *)
(*                                                                         *)
(* Strings are modelled as sequences of chunks: "\n" and " " are single    *)
(* whitespace characters, every other chunk is a non-empty piece of text   *)
(* without whitespace.  Concatenation is \o, str.endswith and str.strip    *)
(* are computed on the chunks.                                             *)
(***************************************************************************)
EXTENDS Integers, Sequences, FiniteSets, TLC

\* ------------------------------------------------------------------ bounds
NTasks == 2         \* concurrent tool calls
MaxCtl == 3         \* controllers constructed in one run
MaxBatch == 3       \* records in one batch returned by the debugger
MaxCrash == 1       \* debugger processes that die on their own in one run
MaxChunk == 2       \* bytes in one chunk read from the PTY
MaxStr == 2         \* characters in one string given to send_to_process
MaxRec == 2         \* records in one batch when the poll brings any record

Tasks == 1..NTasks
Ctls == 1..MaxCtl

\* ------------------------------------------------------------- GdbState
DEAD == "Uninitialized"
STOPPED == "Stopped"
RUNNING == "Running"
NONE == "None"

\* ------------------------------------------------------------ GdbMIType
NOTIFY == "notify"
CONSOLE == "console"
LOG == "log"
RESULT == "result"
TARGET == "target"

\* GdbResponse(mitype, message, payload): message if message else payload
GdbResponse(mitype, message) == [mitype |-> mitype, message |-> message]

\* ------------------------------------------------------------ str helpers
IsSpace(ch) == ch = " " \/ ch = "\n"

endswith_nl(s) == Len(s) > 0 /\ s[Len(s)] = "\n"

RECURSIVE lstrip(_)
lstrip(s) == IF s # <<>> /\ IsSpace(Head(s)) THEN lstrip(Tail(s)) ELSE s

RECURSIVE rstrip(_)
rstrip(s) ==
    IF s # <<>> /\ IsSpace(s[Len(s)]) THEN rstrip(SubSeq(s, 1, Len(s) - 1)) ELSE s

strip(s) == rstrip(lstrip(s))

\* --------------------------------------------------- update_gdb_state
RunningMsg == <<"running">>
StoppedMsg == <<"stopped">>
ParamChangedMsg == <<"cmd-param-changed">>

\* One iteration of the loop of update_gdb_state: the new value of cache.
StateCase(cache, resp) ==
    IF resp.mitype = NOTIFY
    THEN IF resp.message = RunningMsg THEN RUNNING
         ELSE IF resp.message = StoppedMsg THEN STOPPED
         ELSE cache
    ELSE cache

RECURSIVE StateLoop(_, _, _)
StateLoop(resps, i, cache) ==
    IF i > Len(resps) THEN cache
    ELSE StateLoop(resps, i + 1, StateCase(cache, resps[i]))

update_gdb_state(resps) == StateLoop(resps, 1, NONE)

\* ------------------------------------------ execute: merge of the records
\* a merge whose closing record forgets the buffered fragments
MergeStepNoJoin(acc, i) ==
    LET r == acc.rs[i] IN
    CASE r.mitype = CONSOLE ->
            IF ~endswith_nl(r.message)
            THEN [acc EXCEPT !.cache = acc.cache \o r.message,
                             !.pop_list = Append(acc.pop_list, i)]
            ELSE [acc EXCEPT !.rs[i].message = strip(r.message), !.cache = <<>>]
      [] r.mitype = LOG -> [acc EXCEPT !.rs[i].message = strip(r.message)]
      [] r.mitype = NOTIFY ->
            IF r.message = ParamChangedMsg
            THEN [acc EXCEPT !.pop_list = Append(acc.pop_list, i)]
            ELSE acc
      [] r.mitype = RESULT -> [acc EXCEPT !.pop_list = Append(acc.pop_list, i)]
      [] OTHER -> acc

\* The loop's accumulator: rs the records (messages rewritten in place),
\* cache the buffered console text, pop_list the indices to remove.
MergeStep(acc, i) ==
    LET r == acc.rs[i] IN
    CASE r.mitype = CONSOLE ->
            IF ~endswith_nl(r.message)
            THEN [acc EXCEPT !.cache = acc.cache \o r.message,
                             !.pop_list = Append(acc.pop_list, i)]
            ELSE IF acc.cache # <<>>
                 THEN [acc EXCEPT !.rs[i].message = strip(acc.cache \o r.message),
                                  !.cache = <<>>]
                 ELSE [acc EXCEPT !.rs[i].message = strip(r.message)]
      [] r.mitype = LOG -> [acc EXCEPT !.rs[i].message = strip(r.message)]
      [] r.mitype = NOTIFY ->
            IF r.message = ParamChangedMsg
            THEN [acc EXCEPT !.pop_list = Append(acc.pop_list, i)]
            ELSE acc
      [] r.mitype = RESULT -> [acc EXCEPT !.pop_list = Append(acc.pop_list, i)]
      [] OTHER -> acc

RECURSIVE MergeLoop(_, _)
MergeLoop(acc, i) ==
    IF i > Len(acc.rs) THEN acc ELSE MergeLoop(MergeStep(acc, i), i + 1)

\* if cache: parsed_responses[pop_list[-1]].message = cache.strip(); pop_list.pop(-1)
FlushCache(acc) ==
    IF acc.cache # <<>>
    THEN LET last == acc.pop_list[Len(acc.pop_list)] IN
         [acc EXCEPT !.rs[last].message = strip(acc.cache),
                     !.pop_list = SubSeq(acc.pop_list, 1, Len(acc.pop_list) - 1)]
    ELSE acc

Range(s) == {s[i] : i \in DOMAIN s}

\* for i in reversed(pop_list): parsed_responses.pop(i)
RECURSIVE Keep(_, _, _)
Keep(rs, popped, i) ==
    IF i > Len(rs) THEN <<>>
    ELSE (IF i \in popped THEN <<>> ELSE <<rs[i]>>) \o Keep(rs, popped, i + 1)

PopAll(acc) == Keep(acc.rs, Range(acc.pop_list), 1)

merge_responses(parsed_responses) ==
    PopAll(FlushCache(MergeLoop(
        [rs |-> parsed_responses, cache |-> <<>>, pop_list |-> <<>>], 1)))

\* ------------------------------------------------- target I/O: the bytes
\* A bytes object is a sequence of integers 0..255, a str a sequence of code
\* points.

\* gdb_controller.py 253: all(b >= 32 or b == 0xd or b == 0xa for b in data)
all_printable(data) ==
    \A i \in DOMAIN data : data[i] >= 32 \/ data[i] = 13 \/ data[i] = 10

IsCont(b) == b >= 128 /\ b <= 191

\* the length of the UTF-8 sequence that begins data, 0 if none is well formed
SeqLen(data) ==
    LET b == data[1]
        n == Len(data)
    IN  IF b < 128 THEN 1
        ELSE IF b >= 194 /\ b <= 223
        THEN IF n >= 2 /\ IsCont(data[2]) THEN 2 ELSE 0
        ELSE IF b >= 224 /\ b <= 239
        THEN IF /\ n >= 3 /\ IsCont(data[2]) /\ IsCont(data[3])
                /\ (b = 224 => data[2] >= 160)
                /\ (b = 237 => data[2] <= 159)
             THEN 3 ELSE 0
        ELSE IF b >= 240 /\ b <= 244
        THEN IF /\ n >= 4 /\ IsCont(data[2]) /\ IsCont(data[3]) /\ IsCont(data[4])
                /\ (b = 240 => data[2] >= 144)
                /\ (b = 244 => data[2] <= 143)
             THEN 4 ELSE 0
        ELSE 0

\* the code point of the well-formed sequence of k bytes that begins data
CodePoint(data, k) ==
    CASE k = 1 -> data[1]
      [] k = 2 -> (data[1] % 32) * 64 + (data[2] % 64)
      [] k = 3 -> (data[1] % 16) * 4096 + (data[2] % 64) * 64 + (data[3] % 64)
      [] OTHER -> (data[1] % 8) * 262144 + (data[2] % 64) * 4096
                      + (data[3] % 64) * 64 + (data[4] % 64)

\* data.decode('utf-8'): the code points, or UnicodeDecodeError
RECURSIVE decode(_)
decode(data) ==
    IF data = <<>> THEN [ok |-> TRUE, text |-> <<>>]
    ELSE LET k == SeqLen(data) IN
         IF k = 0 THEN [ok |-> FALSE, text |-> <<>>]
         ELSE LET rest == decode(SubSeq(data, k + 1, Len(data))) IN
              [ok |-> rest.ok,
               text |-> IF rest.ok THEN <<CodePoint(data, k)>> \o rest.text ELSE <<>>]

\* hexdump(data, 'return'): the two hexadecimal digits of every byte
RECURSIVE hexdump(_)
hexdump(data) ==
    IF data = <<>> THEN <<>>
    ELSE <<Head(data) \div 16, Head(data) % 16>> \o hexdump(Tail(data))

NoData == [kind |-> "None", val |-> <<>>]
Text(cps) == [kind |-> "text", val |-> cps]
Dump(digits) == [kind |-> "hexdump", val |-> digits]

\* gdb_controller.py 250-261: what read_from_process returns for the bytes read
render(data) ==
    IF data = <<>> THEN NoData
    ELSE IF all_printable(data)
         THEN IF decode(data).ok THEN Text(decode(data).text)
              ELSE Dump(hexdump(data))
         ELSE Dump(hexdump(data))

\* str.encode(): UTF-8
RECURSIVE encode_utf8(_)
encode_utf8(str) ==
    IF str = <<>> THEN <<>>
    ELSE LET cp == Head(str) IN
         (IF cp < 128 THEN <<cp>>
          ELSE IF cp < 2048 THEN <<192 + (cp \div 64), 128 + (cp % 64)>>
          ELSE IF cp < 65536
               THEN <<224 + (cp \div 4096), 128 + ((cp \div 64) % 64), 128 + (cp % 64)>>
          ELSE <<240 + (cp \div 262144), 128 + ((cp \div 4096) % 64),
                 128 + ((cp \div 64) % 64), 128 + (cp % 64)>>)
         \o encode_utf8(Tail(str))

\* str.encode('latin1'): one byte per character below U+0100
encode_latin1(str) == str

\* tools.py 155-158: the bytes the tool sends for the string data
tosend(str) ==
    IF \A i \in DOMAIN str : str[i] < 256 THEN encode_latin1(str)
    ELSE encode_utf8(str)

\* ------------------------------------------------------------- the state
VARIABLES
    gdb,            \* tools._gdb_controller: 0 is None, else a controller
    nctl,           \* controllers constructed so far (AsyncGdbController(...))
    state,          \* [Ctls -> GdbState]            self.state
    controller,     \* [Ctls -> NONE | "GdbController"]  self._controller
    started,        \* [Ctls -> "unset" | "True" | "False"]  self._started
    pty_master,     \* [Ctls -> NONE | "fd"]          self._pty_master
    pty_slave,      \* [Ctls -> NONE | "fd"]          self._pty_slave
    queue,          \* [Ctls -> Seq(job)]  the executor's work queue
    running,        \* [Ctls -> SUBSET job] jobs a worker thread is running
    shutdown,       \* [Ctls -> BOOLEAN]   the executor was shut down
    proc,           \* [Ctls -> "none" | "live" | "crashed" | "exited"]
    ncrash,         \* debugger processes that died on their own so far
    ready,          \* the event loop's FIFO of runnable tasks
    cur,            \* the task running on the event loop, 0 if none
    pc,             \* [Tasks -> label]  where each tool call stands
    stk,            \* [Tasks -> Seq(label)]  return labels of the awaited calls
    tool,           \* [Tasks -> the tool being called]
    self,           \* [Tasks -> controller]  self of the method being run
    gdbh,           \* [Tasks -> controller]  gdb = await may_start_gdb()
    cmd,            \* [Tasks -> command]
    parsed,         \* [Tasks -> Seq(GdbResponse)]  parsed_responses
    fut,            \* [Tasks -> result of the awaited executor job]
    ret,            \* [Tasks -> what execute returned]
    out,            \* [Tasks -> "none" | "ok" | the exception the call raised]
    viaPoll,        \* [Tasks -> BOOLEAN]  execute saw RUNNING on entry
    nsub,           \* [Tasks -> polls and writes this call's execute submitted]
    heal,           \* [Tasks -> the controller whose broken channel ended the
                    \*           caller's previous call, 0 if it ended otherwise]
    pty_mode,       \* [Ctls -> "none" | "raw" | "cooked"]  the slave terminal:
                    \*           raw, or its original signal-generating attributes
    arg_data,       \* [Tasks -> str]    data of the send_to_process tool
    chunk,          \* [Tasks -> bytes]  tosend, or the data read from the PTY
    nwrote,         \* [Tasks -> bytes os.write wrote for this call]
    reply           \* [Tasks -> what the target I/O tool answers]

ctlvars == <<state, controller, started, pty_master, pty_slave>>
exvars == <<queue, running, shutdown>>
envvars == <<proc, ncrash>>
loopvars == <<ready, cur>>
callvars == <<tool, cmd>>
taskvars == <<pc, stk, self, gdbh, parsed, fut, ret, out, viaPoll, nsub, heal>>
iovars == <<arg_data, chunk, nwrote, reply>>
ptyvars == <<pty_mode, iovars>>
vars == <<gdb, nctl, ctlvars, exvars, envvars, loopvars, callvars, taskvars, ptyvars>>

\* ---------------------------------------------------------------- values
Commands == {"x", "quit"}
Tools == {"execute_command", "pwndbg_hard_reset"}

\* an execute that identifies no command as quit
NeverQuit(command) == FALSE

\* gdb_controller.py 191: command == 'quit' or command == 'q'
IsQuit(command) == command = "quit" \/ command = "q"

ExitedMsg == <<"GDB exited! run this command again">>

NoFuture == [exc |-> NONE, val |-> <<>>]
Returned(batch) == [exc |-> NONE, val |-> batch]
Raised(e) == [exc |-> e, val |-> <<>>]

Unset == [kind |-> "unset", val |-> <<>>]
Absent == [kind |-> "None", val |-> <<>>]
List(rs) == [kind |-> "list", val |-> rs]

Job(kind, t) == [kind |-> kind, t |-> t, res |-> "pending"]

\* ThreadPoolExecutor(max_workers=1)
max_workers == 1

NoReply == [kind |-> "unset", val |-> <<>>]

\* ------------------------------------------------------------------ Init
\* AsyncGdbController.__init__ for every controller that will be constructed
Init ==
    /\ gdb = 0
    /\ nctl = 0
    /\ state = [c \in Ctls |-> DEAD]
    /\ controller = [c \in Ctls |-> NONE]
    /\ started = [c \in Ctls |-> "unset"]
    /\ pty_master = [c \in Ctls |-> NONE]
    /\ pty_slave = [c \in Ctls |-> NONE]
    /\ queue = [c \in Ctls |-> <<>>]
    /\ running = [c \in Ctls |-> {}]
    /\ shutdown = [c \in Ctls |-> FALSE]
    /\ proc = [c \in Ctls |-> "none"]
    /\ ncrash = 0
    /\ ready = <<>>
    /\ cur = 0
    /\ pc = [t \in Tasks |-> "idle"]
    /\ stk = [t \in Tasks |-> <<>>]
    /\ tool = [t \in Tasks |-> "execute_command"]
    /\ self = [t \in Tasks |-> 0]
    /\ gdbh = [t \in Tasks |-> 0]
    /\ cmd = [t \in Tasks |-> "x"]
    /\ parsed = [t \in Tasks |-> <<>>]
    /\ fut = [t \in Tasks |-> NoFuture]
    /\ ret = [t \in Tasks |-> Unset]
    /\ out = [t \in Tasks |-> "none"]
    /\ viaPoll = [t \in Tasks |-> FALSE]
    /\ nsub = [t \in Tasks |-> 0]
    /\ heal = [t \in Tasks |-> 0]
    /\ pty_mode = [c \in Ctls |-> "none"]
    /\ arg_data = [t \in Tasks |-> <<>>]
    /\ chunk = [t \in Tasks |-> <<>>]
    /\ nwrote = [t \in Tasks |-> 0]
    /\ reply = [t \in Tasks |-> NoReply]

\* ------------------------------------------------------- the event loop
\* Task t runs now: it holds the loop, or the loop is free and t is the
\* first runnable task.
Scheduled(t) == cur = t \/ (cur = 0 /\ ready # <<>> /\ Head(ready) = t)

Rest(t) == IF cur = t THEN ready ELSE Tail(ready)

\* t goes on without giving up the loop
Continue(t) == cur' = t /\ ready' = Rest(t)

\* t awaits (or its tool call ends): the loop is free again
Yield(t) == cur' = 0 /\ ready' = Rest(t)

\* return from an awaited coroutine to the label on top of the stack
Return(t) ==
    /\ pc' = [pc EXCEPT ![t] = Head(stk[t])]
    /\ stk' = [stk EXCEPT ![t] = Tail(stk[t])]
    /\ Continue(t)

\* await callee(...), then go on at label back
CallTo(t, callee, back) ==
    /\ pc' = [pc EXCEPT ![t] = callee]
    /\ stk' = [stk EXCEPT ![t] = <<back>> \o stk[t]]
    /\ Continue(t)

\* the tool call ends: normally, or with the exception that reached it
Finish(t, how) ==
    /\ pc' = [pc EXCEPT ![t] = "idle"]
    /\ stk' = [stk EXCEPT ![t] = <<>>]
    /\ out' = [out EXCEPT ![t] = how]
    /\ Yield(t)

\* loop.run_in_executor(self._executor, job); the caller awaits at label wait
Submit(t, c, kind, wait) ==
    /\ queue' = [queue EXCEPT ![c] = Append(queue[c], Job(kind, t))]
    /\ pc' = [pc EXCEPT ![t] = wait]
    /\ nsub' = [nsub EXCEPT ![t] =
                    IF kind \in {"poll", "write"} THEN nsub[t] + 1 ELSE nsub[t]]
    /\ Yield(t)

\* ------------------------------------------------------------- tool calls
\* A tool call arrives: its coroutine is scheduled on the event loop.
Call(t, name, command) ==
    /\ pc[t] = "idle"
    /\ pc' = [pc EXCEPT ![t] = "may_start_gdb"]
    /\ stk' = [stk EXCEPT ![t] =
                  IF name = "execute_command" THEN <<"ec109">> ELSE <<"hr258">>]
    /\ tool' = [tool EXCEPT ![t] = name]
    /\ cmd' = [cmd EXCEPT ![t] = command]
    /\ ready' = Append(ready, t)
    /\ parsed' = [parsed EXCEPT ![t] = <<>>]
    /\ fut' = [fut EXCEPT ![t] = NoFuture]
    /\ ret' = [ret EXCEPT ![t] = Unset]
    /\ out' = [out EXCEPT ![t] = "none"]
    /\ viaPoll' = [viaPoll EXCEPT ![t] = FALSE]
    /\ nsub' = [nsub EXCEPT ![t] = 0]
    /\ heal' = [heal EXCEPT ![t] =
                    IF fut[t].exc = "BrokenPipeError" THEN self[t] ELSE 0]
    /\ UNCHANGED <<gdb, nctl, ctlvars, exvars, envvars, cur, self, gdbh, ptyvars>>

\* ----------------------------------------------------------- may_start_gdb
\* tools.py 63-65: if _gdb_controller is None: construct it and start it
MayStartGdb(t) ==
    /\ pc[t] = "may_start_gdb"
    /\ UNCHANGED heal
    /\ UNCHANGED ptyvars
    /\ Scheduled(t)
    /\ IF gdb = 0
       THEN /\ nctl < MaxCtl
            /\ nctl' = nctl + 1
            /\ gdb' = nctl + 1
            /\ self' = [self EXCEPT ![t] = nctl + 1]
            /\ CallTo(t, "start", "msg66")
       ELSE /\ pc' = [pc EXCEPT ![t] = "msg66"]
            /\ Continue(t)
            /\ UNCHANGED <<gdb, nctl, self, stk>>
    /\ UNCHANGED <<ctlvars, exvars, envvars, callvars,
                   gdbh, parsed, fut, ret, out, viaPoll, nsub>>

\* The controller returned to the caller of may_start_gdb: the tools bind it
\* to their local gdb, tools.py 259 (await may_start_gdb()) drops it.
Bound(t) ==
    IF Head(stk[t]) = "hr260" THEN gdbh ELSE [gdbh EXCEPT ![t] = gdb]

\* a may_start_gdb that hands out a dead controller
MayStartGdbNoRestart(t) ==
    /\ pc[t] = "msg66"
    /\ Scheduled(t)
    /\ gdbh' = Bound(t)
    /\ Return(t)
    /\ UNCHANGED <<gdb, nctl, ctlvars, exvars, envvars, callvars,
                   self, parsed, fut, ret, out, viaPoll, nsub, heal, ptyvars>>

\* tools.py 66-67: if _gdb_controller.state is DEAD: close it ...
\* tools.py 70 when it is not: return _gdb_controller
MayStartGdb66(t) ==
    /\ pc[t] = "msg66"
    /\ UNCHANGED heal
    /\ UNCHANGED ptyvars
    /\ Scheduled(t)
    /\ IF state[gdb] = DEAD
       THEN /\ self' = [self EXCEPT ![t] = gdb]
            /\ CallTo(t, "close", "msg68")
            /\ UNCHANGED gdbh
       ELSE /\ gdbh' = Bound(t)
            /\ Return(t)
            /\ UNCHANGED self
    /\ UNCHANGED <<gdb, nctl, ctlvars, exvars, envvars, callvars,
                   parsed, fut, ret, out, viaPoll, nsub>>

\* tools.py 68-69: ... construct a new controller and start it
MayStartGdb68(t) ==
    /\ pc[t] = "msg68"
    /\ UNCHANGED heal
    /\ UNCHANGED ptyvars
    /\ Scheduled(t)
    /\ nctl < MaxCtl
    /\ nctl' = nctl + 1
    /\ gdb' = nctl + 1
    /\ self' = [self EXCEPT ![t] = nctl + 1]
    /\ CallTo(t, "start", "msg70")
    /\ UNCHANGED <<ctlvars, exvars, envvars, callvars,
                   gdbh, parsed, fut, ret, out, viaPoll, nsub>>

\* tools.py 70: return _gdb_controller (the module's variable as it is now)
MayStartGdb70(t) ==
    /\ pc[t] = "msg70"
    /\ UNCHANGED heal
    /\ UNCHANGED ptyvars
    /\ Scheduled(t)
    /\ gdbh' = Bound(t)
    /\ Return(t)
    /\ UNCHANGED <<gdb, nctl, ctlvars, exvars, envvars, callvars,
                   self, parsed, fut, ret, out, viaPoll, nsub>>

\* ------------------------------------------------- AsyncGdbController.start
\* a start without the check of line 75
StartAlways(t) ==
    /\ pc[t] = "start"
    /\ UNCHANGED heal
    /\ UNCHANGED iovars
    /\ Scheduled(t)
    /\ LET c == self[t] IN
       /\ pty_master' = [pty_master EXCEPT ![c] = "fd"]
       /\ pty_slave' = [pty_slave EXCEPT ![c] = "fd"]
       /\ pty_mode' = [pty_mode EXCEPT ![c] = "raw"]
       /\ Submit(t, c, "launch", "start_wait")
       /\ UNCHANGED stk
    /\ UNCHANGED <<gdb, nctl, state, controller, started, running, shutdown,
                   envvars, callvars, self, gdbh, parsed, fut, ret, out, viaPoll>>

\* gdb_controller.py 75-98: no-op unless DEAD; open the PTY and set it raw,
\* launch gdb on the executor and await it
Start(t) ==
    /\ pc[t] = "start"
    /\ UNCHANGED heal
    /\ UNCHANGED iovars
    /\ Scheduled(t)
    /\ LET c == self[t] IN
       IF state[c] # DEAD
       THEN /\ Return(t)
            /\ UNCHANGED <<pty_master, pty_slave, pty_mode, queue, nsub>>
       ELSE /\ pty_master' = [pty_master EXCEPT ![c] = "fd"]
            /\ pty_slave' = [pty_slave EXCEPT ![c] = "fd"]
            /\ pty_mode' = [pty_mode EXCEPT ![c] = "raw"]
            /\ Submit(t, c, "launch", "start_wait")
            /\ UNCHANGED stk
    /\ UNCHANGED <<gdb, nctl, state, controller, started, running, shutdown,
                   envvars, callvars, self, gdbh, parsed, fut, ret, out, viaPoll>>

\* gdb_controller.py 95-100: the launch returned
StartDone(t) ==
    /\ pc[t] = "start_wait"
    /\ UNCHANGED heal
    /\ UNCHANGED ptyvars
    /\ Scheduled(t)
    /\ LET c == self[t] IN
       /\ controller' = [controller EXCEPT ![c] = "GdbController"]
       /\ state' = [state EXCEPT ![c] = STOPPED]
       /\ started' = [started EXCEPT ![c] = "True"]
    /\ Return(t)
    /\ UNCHANGED <<gdb, nctl, pty_master, pty_slave, exvars, envvars, callvars,
                   self, gdbh, parsed, fut, ret, out, viaPoll, nsub>>

\* ------------------------------------------------- AsyncGdbController.close
\* a close that raises when the controller was closed before
CloseRefusesClosed(t) ==
    /\ pc[t] = "close"
    /\ UNCHANGED heal
    /\ UNCHANGED ptyvars
    /\ Scheduled(t)
    /\ LET c == self[t] IN
       CASE started[c] = "unset" ->
                /\ Finish(t, "AttributeError")
                /\ UNCHANGED <<pty_master, pty_slave, queue, nsub>>
         [] started[c] = "False" ->
                /\ Finish(t, "RuntimeError")
                /\ UNCHANGED <<pty_master, pty_slave, queue, nsub>>
         [] started[c] = "True" /\ controller[c] # NONE /\ ~shutdown[c] ->
                /\ Submit(t, c, "exit", "close_wait")
                /\ UNCHANGED <<pty_master, pty_slave, stk, out>>
         [] OTHER ->
                /\ pty_master' = [pty_master EXCEPT ![c] = NONE]
                /\ pty_slave' = [pty_slave EXCEPT ![c] = NONE]
                /\ Finish(t, "RuntimeError")
                /\ UNCHANGED <<queue, nsub>>
    /\ UNCHANGED <<gdb, nctl, state, controller, started, running, shutdown,
                   envvars, callvars, self, gdbh, parsed, fut, ret, viaPoll>>

\* gdb_controller.py 264-272.  self._started is an attribute only start sets
\* (line 100): reading it on a controller whose start has not completed raises
\* AttributeError.
Close(t) ==
    /\ pc[t] = "close"
    /\ UNCHANGED heal
    /\ UNCHANGED ptyvars
    /\ Scheduled(t)
    /\ LET c == self[t] IN
       CASE started[c] = "unset" ->
                /\ Finish(t, "AttributeError")
                /\ UNCHANGED <<pty_master, pty_slave, queue, nsub>>
         [] started[c] = "False" ->
                /\ Return(t)
                /\ UNCHANGED <<pty_master, pty_slave, queue, nsub, out>>
         [] started[c] = "True" /\ controller[c] # NONE /\ ~shutdown[c] ->
                /\ Submit(t, c, "exit", "close_wait")
                /\ UNCHANGED <<pty_master, pty_slave, stk, out>>
         [] started[c] = "True" /\ controller[c] # NONE /\ shutdown[c] ->
                \* run_in_executor raises RuntimeError; finally closes the PTY
                /\ pty_master' = [pty_master EXCEPT ![c] = NONE]
                /\ pty_slave' = [pty_slave EXCEPT ![c] = NONE]
                /\ Finish(t, "RuntimeError")
                /\ UNCHANGED <<queue, nsub>>
         [] OTHER ->
                /\ pty_master' = [pty_master EXCEPT ![c] = NONE]
                /\ pty_slave' = [pty_slave EXCEPT ![c] = NONE]
                /\ pc' = [pc EXCEPT ![t] = "close_shutdown"]
                /\ Continue(t)
                /\ UNCHANGED <<queue, nsub, stk, out>>
    /\ UNCHANGED <<gdb, nctl, state, controller, started, running, shutdown,
                   envvars, callvars, self, gdbh, parsed, fut, ret, viaPoll>>

\* a close without the finally block: a failed exit leaves the PTY open
CloseExitedNoFinally(t) ==
    /\ pc[t] = "close_wait"
    /\ UNCHANGED heal
    /\ UNCHANGED ptyvars
    /\ Scheduled(t)
    /\ LET c == self[t] IN
       IF fut[t].exc # NONE
       THEN /\ Finish(t, fut[t].exc)
            /\ UNCHANGED <<controller, started, pty_master, pty_slave>>
       ELSE /\ pty_master' = [pty_master EXCEPT ![c] = NONE]
            /\ pty_slave' = [pty_slave EXCEPT ![c] = NONE]
            /\ controller' = [controller EXCEPT ![c] = NONE]
            /\ started' = [started EXCEPT ![c] = "False"]
            /\ pc' = [pc EXCEPT ![t] = "close_shutdown"]
            /\ Continue(t)
            /\ UNCHANGED <<stk, out>>
    /\ UNCHANGED <<gdb, nctl, state, exvars, envvars, callvars,
                   self, gdbh, parsed, fut, ret, viaPoll, nsub>>

\* gdb_controller.py 273-283: exit returned: clear the handle, close the PTY;
\* exit raised: the finally block closes the PTY and the exception goes on
CloseExited(t) ==
    /\ pc[t] = "close_wait"
    /\ UNCHANGED heal
    /\ UNCHANGED ptyvars
    /\ Scheduled(t)
    /\ LET c == self[t] IN
       /\ pty_master' = [pty_master EXCEPT ![c] = NONE]
       /\ pty_slave' = [pty_slave EXCEPT ![c] = NONE]
       /\ IF fut[t].exc # NONE
          THEN /\ Finish(t, fut[t].exc)
               /\ UNCHANGED <<controller, started>>
          ELSE /\ controller' = [controller EXCEPT ![c] = NONE]
               /\ started' = [started EXCEPT ![c] = "False"]
               /\ pc' = [pc EXCEPT ![t] = "close_shutdown"]
               /\ Continue(t)
               /\ UNCHANGED <<stk, out>>
    /\ UNCHANGED <<gdb, nctl, state, exvars, envvars, callvars,
                   self, gdbh, parsed, fut, ret, viaPoll, nsub>>

\* gdb_controller.py 285-286: executor.shutdown(wait=True) blocks the event
\* loop until the worker has run every queued job; then state = DEAD
CloseShutdown(t) ==
    /\ pc[t] = "close_shutdown"
    /\ UNCHANGED heal
    /\ UNCHANGED ptyvars
    /\ cur = t
    /\ LET c == self[t] IN
       /\ queue[c] = <<>>
       /\ running[c] = {}
       /\ shutdown' = [shutdown EXCEPT ![c] = TRUE]
       /\ state' = [state EXCEPT ![c] = DEAD]
    /\ Return(t)
    /\ UNCHANGED <<gdb, nctl, controller, started, pty_master, pty_slave,
                   queue, running, envvars, callvars,
                   self, gdbh, parsed, fut, ret, out, viaPoll, nsub>>

\* ----------------------------------------------- AsyncGdbController.execute
\* a check that only turns away a dead session
MayWriteUnlessDead(st) == st # DEAD

\* gdb_controller.py 135: if self.state is not GdbState.STOPPED: return None
MayWrite(st) == st = STOPPED

\* gdb_controller.py 135-147 with the controller's state st and the records
\* pr parsed so far: return None, or give the write to the executor and await
ExecuteCheck(t, c, st, pr) ==
    /\ state' = [state EXCEPT ![c] = st]
    /\ parsed' = [parsed EXCEPT ![t] = pr]
    /\ IF ~MayWrite(st)
       THEN /\ ret' = [ret EXCEPT ![t] = Absent]
            /\ Finish(t, "ok")
            /\ UNCHANGED <<queue, nsub>>
       ELSE IF shutdown[c]
       THEN /\ Finish(t, "RuntimeError")
            /\ UNCHANGED <<queue, nsub, ret>>
       ELSE /\ Submit(t, c, "write", "exec_write_wait")
            /\ UNCHANGED <<stk, out, ret>>

\* tools.py 109 and gdb_controller.py 120-127: execute_command calls
\* gdb.execute(command); in state RUNNING execute first polls the debugger
Execute(t) ==
    /\ pc[t] = "ec109"
    /\ UNCHANGED heal
    /\ UNCHANGED ptyvars
    /\ Scheduled(t)
    /\ self' = [self EXCEPT ![t] = gdbh[t]]
    /\ LET c == gdbh[t] IN
       IF state[c] = RUNNING
       THEN /\ viaPoll' = [viaPoll EXCEPT ![t] = TRUE]
            /\ IF shutdown[c]
               THEN /\ Finish(t, "RuntimeError")
                    /\ UNCHANGED <<queue, nsub>>
               ELSE /\ Submit(t, c, "poll", "exec_poll_wait")
                    /\ UNCHANGED <<stk, out>>
            /\ UNCHANGED <<state, parsed, ret>>
       ELSE /\ ExecuteCheck(t, c, state[c], <<>>)
            /\ UNCHANGED viaPoll
    /\ UNCHANGED <<gdb, nctl, controller, started, pty_master, pty_slave,
                   running, shutdown, envvars, callvars, gdbh, fut>>

\* gdb_controller.py 128-133: the state after the poll's records
StateAfter(st, resps) ==
    LET new_state == update_gdb_state(resps) IN
    IF new_state # NONE THEN new_state ELSE st

\* gdb_controller.py 128-147: the poll returned
ExecutePolled(t) ==
    /\ pc[t] = "exec_poll_wait"
    /\ UNCHANGED heal
    /\ UNCHANGED ptyvars
    /\ Scheduled(t)
    /\ LET c == self[t] IN
       IF fut[t].exc # NONE
       THEN /\ Finish(t, fut[t].exc)
            /\ UNCHANGED <<state, parsed, ret, queue, nsub>>
       ELSE ExecuteCheck(t, c, StateAfter(state[c], fut[t].val), fut[t].val)
    /\ UNCHANGED <<gdb, nctl, controller, started, pty_master, pty_slave,
                   running, shutdown, envvars, callvars, self, gdbh, fut, viaPoll>>

\* a handler that lets the exception reach the caller
BrokenPipeRaises(t, c) ==
    /\ Finish(t, "BrokenPipeError")
    /\ UNCHANGED <<state, parsed, ret>>

\* gdb_controller.py 148-151: except BrokenPipeError
BrokenPipe(t, c) ==
    /\ state' = [state EXCEPT ![c] = DEAD]
    /\ ret' = [ret EXCEPT ![t] = List(<<GdbResponse(RESULT, ExitedMsg)>>)]
    /\ Finish(t, "ok")
    /\ UNCHANGED parsed

\* gdb_controller.py 143-194: the write returned or raised
ExecuteWritten(t) ==
    /\ pc[t] = "exec_write_wait"
    /\ UNCHANGED heal
    /\ UNCHANGED ptyvars
    /\ Scheduled(t)
    /\ LET c == self[t] IN
       CASE fut[t].exc = "BrokenPipeError" -> BrokenPipe(t, c)
         [] fut[t].exc \notin {NONE, "BrokenPipeError"} ->
                /\ Finish(t, fut[t].exc)
                /\ UNCHANGED <<state, parsed, ret>>
         [] OTHER ->
                LET merged == merge_responses(parsed[t] \o fut[t].val) IN
                /\ state' = [state EXCEPT ![c] = StateAfter(state[c], merged)]
                /\ parsed' = [parsed EXCEPT ![t] = merged]
                /\ IF IsQuit(cmd[t])
                   THEN /\ CallTo(t, "close", "exec194")
                        /\ UNCHANGED <<ret, out>>
                   ELSE /\ ret' = [ret EXCEPT ![t] = List(merged)]
                        /\ Finish(t, "ok")
    /\ UNCHANGED <<gdb, nctl, controller, started, pty_master, pty_slave,
                   exvars, envvars, callvars, self, gdbh, fut, viaPoll, nsub>>

\* gdb_controller.py 193-194: close returned; return parsed_responses
ExecuteReturn(t) ==
    /\ pc[t] = "exec194"
    /\ UNCHANGED heal
    /\ UNCHANGED ptyvars
    /\ Scheduled(t)
    /\ ret' = [ret EXCEPT ![t] = List(parsed[t])]
    /\ Finish(t, "ok")
    /\ UNCHANGED <<gdb, nctl, ctlvars, exvars, envvars, callvars,
                   self, gdbh, parsed, fut, viaPoll, nsub>>

\* --------------------------------------------------------- pwndbg_hard_reset
\* a reset that does not close the controller it was handed
HardResetNoClose(t) ==
    /\ pc[t] = "hr258"
    /\ UNCHANGED heal
    /\ UNCHANGED ptyvars
    /\ Scheduled(t)
    /\ self' = [self EXCEPT ![t] = gdbh[t]]
    /\ pc' = [pc EXCEPT ![t] = "hr259"]
    /\ Continue(t)
    /\ UNCHANGED <<gdb, nctl, ctlvars, exvars, envvars, callvars,
                   stk, gdbh, parsed, fut, ret, out, viaPoll, nsub>>

\* tools.py 257-258: gdb = await may_start_gdb(); await gdb.close()
HardResetClose(t) ==
    /\ pc[t] = "hr258"
    /\ UNCHANGED heal
    /\ UNCHANGED ptyvars
    /\ Scheduled(t)
    /\ self' = [self EXCEPT ![t] = gdbh[t]]
    /\ CallTo(t, "close", "hr259")
    /\ UNCHANGED <<gdb, nctl, ctlvars, exvars, envvars, callvars,
                   gdbh, parsed, fut, ret, out, viaPoll, nsub>>

\* tools.py 259: await may_start_gdb()
HardResetRestart(t) ==
    /\ pc[t] = "hr259"
    /\ UNCHANGED heal
    /\ UNCHANGED ptyvars
    /\ Scheduled(t)
    /\ CallTo(t, "may_start_gdb", "hr260")
    /\ UNCHANGED <<gdb, nctl, ctlvars, exvars, envvars, callvars,
                   self, gdbh, parsed, fut, ret, out, viaPoll, nsub>>

\* tools.py 260: return format_simple('success')
HardResetReturn(t) ==
    /\ pc[t] = "hr260"
    /\ UNCHANGED heal
    /\ UNCHANGED ptyvars
    /\ Scheduled(t)
    /\ Finish(t, "ok")
    /\ UNCHANGED <<gdb, nctl, ctlvars, exvars, envvars, callvars,
                   self, gdbh, parsed, fut, ret, viaPoll, nsub>>

\* ------------------------------------------------------ target I/O tools
IOTools == {"send_to_process", "read_from_process", "interrupt_process"}

\* tools.py 208-212
CTRL_MAP == [x \in {"C-c", "C-d", "C-z"} |->
                IF x = "C-c" THEN 3 ELSE IF x = "C-d" THEN 4 ELSE 26]

\* the first line of the tool after gdb = await may_start_gdb()
Entry(name) ==
    CASE name = "send_to_process" -> "sp155"
      [] name = "read_from_process" -> "rp205"
      [] OTHER -> "ip221"

\* A target I/O tool call arrives: ctrl is the argument of interrupt_process,
\* str the data of send_to_process.
CallIO(t, name, ctrl, str) ==
    /\ pc[t] = "idle"
    /\ pc' = [pc EXCEPT ![t] = "may_start_gdb"]
    /\ stk' = [stk EXCEPT ![t] = <<Entry(name)>>]
    /\ tool' = [tool EXCEPT ![t] = name]
    /\ cmd' = [cmd EXCEPT ![t] = ctrl]
    /\ arg_data' = [arg_data EXCEPT ![t] = str]
    /\ chunk' = [chunk EXCEPT ![t] = <<>>]
    /\ nwrote' = [nwrote EXCEPT ![t] = 0]
    /\ reply' = [reply EXCEPT ![t] = NoReply]
    /\ ready' = Append(ready, t)
    /\ parsed' = [parsed EXCEPT ![t] = <<>>]
    /\ fut' = [fut EXCEPT ![t] = NoFuture]
    /\ ret' = [ret EXCEPT ![t] = Unset]
    /\ out' = [out EXCEPT ![t] = "none"]
    /\ viaPoll' = [viaPoll EXCEPT ![t] = FALSE]
    /\ nsub' = [nsub EXCEPT ![t] = 0]
    /\ heal' = [heal EXCEPT ![t] = 0]
    /\ UNCHANGED <<gdb, nctl, ctlvars, exvars, envvars, cur, self, gdbh, pty_mode>>

\* A function given to the default executor (run_in_executor(None, f)) runs
\* on a thread of its own; when it has returned or raised, the awaiting task
\* becomes runnable at label back.
ThreadEnds(t, back) ==
    /\ pc' = [pc EXCEPT ![t] = back]
    /\ ready' = Append(ready, t)
    /\ UNCHANGED cur

\* the thread goes on to its next line
ThreadGoes(t, next) ==
    /\ pc' = [pc EXCEPT ![t] = next]
    /\ UNCHANGED loopvars

\* tools.py 155-159 and gdb_controller.py 203-210: encode the data, refuse
\* when there is no PTY, give os.write to the default executor and await it
SendToProcess(t) ==
    /\ pc[t] = "sp155"
    /\ Scheduled(t)
    /\ self' = [self EXCEPT ![t] = gdbh[t]]
    /\ chunk' = [chunk EXCEPT ![t] = tosend(arg_data[t])]
    /\ IF pty_master[gdbh[t]] = NONE
       THEN Finish(t, "RuntimeError")
       ELSE /\ pc' = [pc EXCEPT ![t] = "sw209"]
            /\ Yield(t)
            /\ UNCHANGED <<stk, out>>
    /\ UNCHANGED <<gdb, nctl, ctlvars, exvars, envvars, callvars,
                   gdbh, parsed, fut, ret, viaPoll, nsub, heal,
                   pty_mode, arg_data, nwrote, reply>>

\* gdb_controller.py 209, on its thread: os.write(self._pty_master, data)
SendWrite(t) ==
    /\ pc[t] = "sw209"
    /\ IF pty_master[self[t]] = NONE
       THEN /\ fut' = [fut EXCEPT ![t] = Raised("TypeError")]
            /\ UNCHANGED nwrote
       ELSE /\ fut' = [fut EXCEPT ![t] = Returned(<<>>)]
            /\ nwrote' = [nwrote EXCEPT ![t] = Len(chunk[t])]
    /\ ThreadEnds(t, "sp160")
    /\ UNCHANGED <<gdb, nctl, ctlvars, exvars, envvars, callvars,
                   stk, self, gdbh, parsed, ret, out, viaPoll, nsub, heal,
                   pty_mode, arg_data, chunk, reply>>

\* tools.py 160: return format_simple(f"Sent {len(data)} bytes to process")
SendDone(t) ==
    /\ pc[t] = "sp160"
    /\ Scheduled(t)
    /\ IF fut[t].exc # NONE
       THEN /\ Finish(t, fut[t].exc)
            /\ UNCHANGED reply
       ELSE /\ reply' = [reply EXCEPT ![t] = [kind |-> "sent",
                                              val |-> <<Len(arg_data[t])>>]]
            /\ Finish(t, "ok")
    /\ UNCHANGED <<gdb, nctl, ctlvars, exvars, envvars, callvars,
                   self, gdbh, parsed, fut, ret, viaPoll, nsub, heal,
                   pty_mode, arg_data, chunk, nwrote>>

\* tools.py 205 and gdb_controller.py 241-249: give _read to the default
\* executor and await it
ReadFromProcess(t) ==
    /\ pc[t] = "rp205"
    /\ Scheduled(t)
    /\ self' = [self EXCEPT ![t] = gdbh[t]]
    /\ pc' = [pc EXCEPT ![t] = "rd245"]
    /\ Yield(t)
    /\ UNCHANGED <<gdb, nctl, ctlvars, exvars, envvars, callvars,
                   stk, gdbh, parsed, fut, ret, out, viaPoll, nsub, heal, ptyvars>>

\* gdb_controller.py 243-247, on its thread: poll the master, read what the
\* target wrote (one of chunks), or b'' on timeout or OSError; a closed PTY
\* (self._pty_master is None) makes os.read raise TypeError
ReadPoll(t, chunks) ==
    /\ pc[t] = "rd245"
    /\ IF pty_master[self[t]] = NONE
       THEN /\ fut' = [fut EXCEPT ![t] = Raised("TypeError")]
            /\ UNCHANGED chunk
       ELSE /\ fut' = [fut EXCEPT ![t] = Returned(<<>>)]
            /\ \E data \in chunks \cup {<<>>} : chunk' = [chunk EXCEPT ![t] = data]
    /\ ThreadEnds(t, "rp206")
    /\ UNCHANGED <<gdb, nctl, ctlvars, exvars, envvars, callvars,
                   stk, self, gdbh, parsed, ret, out, viaPoll, nsub, heal,
                   pty_mode, arg_data, nwrote, reply>>

\* gdb_controller.py 250-261 and tools.py 206: render the data and return it
ReadDone(t) ==
    /\ pc[t] = "rp206"
    /\ Scheduled(t)
    /\ IF fut[t].exc # NONE
       THEN /\ Finish(t, fut[t].exc)
            /\ UNCHANGED reply
       ELSE /\ reply' = [reply EXCEPT ![t] = render(chunk[t])]
            /\ Finish(t, "ok")
    /\ UNCHANGED <<gdb, nctl, ctlvars, exvars, envvars, callvars,
                   self, gdbh, parsed, fut, ret, viaPoll, nsub, heal,
                   pty_mode, arg_data, chunk, nwrote>>

\* tools.py 221-226 and gdb_controller.py 216-228: look the control byte up,
\* refuse when there is no PTY, give _send_ctrl to the default executor
InterruptProcess(t) ==
    /\ pc[t] = "ip221"
    /\ Scheduled(t)
    /\ self' = [self EXCEPT ![t] = gdbh[t]]
    /\ IF cmd[t] \notin DOMAIN CTRL_MAP
       THEN /\ reply' = [reply EXCEPT ![t] = [kind |-> "error", val |-> <<>>]]
            /\ Finish(t, "ok")
            /\ UNCHANGED chunk
       ELSE /\ chunk' = [chunk EXCEPT ![t] = <<CTRL_MAP[cmd[t]]>>]
            /\ UNCHANGED reply
            /\ IF pty_master[gdbh[t]] = NONE
               THEN Finish(t, "RuntimeError")
               ELSE /\ pc' = [pc EXCEPT ![t] = "sc221"]
                    /\ Yield(t)
                    /\ UNCHANGED <<stk, out>>
    /\ UNCHANGED <<gdb, nctl, ctlvars, exvars, envvars, callvars,
                   gdbh, parsed, fut, ret, viaPoll, nsub, heal,
                   pty_mode, arg_data, nwrote>>

\* gdb_controller.py 221, on its thread: tcsetattr(slave, TCSANOW, _pty_attrs)
\* restores the signal-generating attributes, or raises
SendCtrlSet(t) ==
    /\ pc[t] = "sc221"
    /\ LET c == self[t] IN
       \/ /\ pty_slave[c] = NONE
          /\ fut' = [fut EXCEPT ![t] = Raised("TypeError")]
          /\ ThreadGoes(t, "sc225")
          /\ UNCHANGED pty_mode
       \/ /\ pty_slave[c] # NONE
          /\ pty_mode' = [pty_mode EXCEPT ![c] = "cooked"]
          /\ ThreadGoes(t, "sc223")
          /\ UNCHANGED fut
       \/ /\ pty_slave[c] # NONE
          /\ fut' = [fut EXCEPT ![t] = Raised("termios.error")]
          /\ ThreadGoes(t, "sc225")
          /\ UNCHANGED pty_mode
    /\ UNCHANGED <<gdb, nctl, ctlvars, exvars, envvars, callvars,
                   stk, self, gdbh, parsed, ret, out, viaPoll, nsub, heal, iovars>>

\* gdb_controller.py 223, on its thread: os.write(self._pty_master, ctrl)
SendCtrlWrite(t) ==
    /\ pc[t] = "sc223"
    /\ LET c == self[t] IN
       \/ /\ pty_master[c] = NONE
          /\ fut' = [fut EXCEPT ![t] = Raised("TypeError")]
          /\ UNCHANGED nwrote
       \/ /\ pty_master[c] # NONE
          /\ nwrote' = [nwrote EXCEPT ![t] = Len(chunk[t])]
          /\ UNCHANGED fut
       \/ /\ pty_master[c] # NONE
          /\ fut' = [fut EXCEPT ![t] = Raised("OSError")]
          /\ UNCHANGED nwrote
    /\ ThreadGoes(t, "sc225")
    /\ UNCHANGED <<gdb, nctl, ctlvars, exvars, envvars, callvars,
                   stk, self, gdbh, parsed, ret, out, viaPoll, nsub, heal,
                   pty_mode, arg_data, chunk, reply>>

\* a _send_ctrl that re-arms raw mode only when nothing failed
SendCtrlRawUnlessFailed(t) ==
    /\ pc[t] = "sc225"
    /\ LET c == self[t] IN
       IF fut[t].exc # NONE
       THEN UNCHANGED <<fut, pty_mode>>
       ELSE /\ pty_mode' = [pty_mode EXCEPT ![c] = "raw"]
            /\ UNCHANGED fut
    /\ ThreadEnds(t, "ip224")
    /\ UNCHANGED <<gdb, nctl, ctlvars, exvars, envvars, callvars,
                   stk, self, gdbh, parsed, ret, out, viaPoll, nsub, heal, iovars>>

\* gdb_controller.py 224-225, on its thread: finally: tty.setraw(slave)
SendCtrlRaw(t) ==
    /\ pc[t] = "sc225"
    /\ LET c == self[t] IN
       IF pty_slave[c] = NONE
       THEN /\ fut' = [fut EXCEPT ![t] = Raised("TypeError")]
            /\ UNCHANGED pty_mode
       ELSE /\ pty_mode' = [pty_mode EXCEPT ![c] = "raw"]
            /\ UNCHANGED fut
    /\ ThreadEnds(t, "ip224")
    /\ UNCHANGED <<gdb, nctl, ctlvars, exvars, envvars, callvars,
                   stk, self, gdbh, parsed, ret, out, viaPoll, nsub, heal, iovars>>

\* tools.py 224: return format_simple(f'Interrupt request {tosend[1]} sent')
InterruptDone(t) ==
    /\ pc[t] = "ip224"
    /\ Scheduled(t)
    /\ IF fut[t].exc # NONE
       THEN /\ Finish(t, fut[t].exc)
            /\ UNCHANGED reply
       ELSE /\ reply' = [reply EXCEPT ![t] = [kind |-> "interrupted", val |-> chunk[t]]]
            /\ Finish(t, "ok")
    /\ UNCHANGED <<gdb, nctl, ctlvars, exvars, envvars, callvars,
                   self, gdbh, parsed, fut, ret, viaPoll, nsub, heal,
                   pty_mode, arg_data, chunk, nwrote>>

\* ------------------------------------------------- what the debugger emits
\* Records of the GDB/MI stream, after GdbResponse.__init__.
NotifyStopped == GdbResponse(NOTIFY, StoppedMsg)
NotifyRunning == GdbResponse(NOTIFY, RunningMsg)
NotifyParam == GdbResponse(NOTIFY, ParamChangedMsg)
ResultDone == GdbResponse(RESULT, <<"done">>)

Records ==
    { NotifyStopped, NotifyRunning, NotifyParam, ResultDone,
      GdbResponse(CONSOLE, <<"ab">>),
      GdbResponse(CONSOLE, <<"cd", "\n">>),
      GdbResponse(CONSOLE, <<" ", "ef", " ", "\n">>),
      GdbResponse(CONSOLE, <<"running">>),
      GdbResponse(LOG, <<"lg", "\n">>),
      GdbResponse(TARGET, <<"tg">>) }

SeqsUpTo(S, n) == UNION {[1..k -> S] : k \in 0..n}

\* every batch of at most MaxBatch records
AllBatches == SeqsUpTo(Records, MaxBatch)

\* what a poll of the notifications can bring
PollBatches == { <<>>, <<NotifyStopped>>, <<NotifyRunning>> }

\* the state-relevant answers to a command
WriteBatches ==
    { <<ResultDone>>, <<NotifyRunning>>, <<ResultDone, NotifyRunning, NotifyStopped>> }

\* ---------------------------------------------------------- the worker thread
\* an executor with a second worker thread
WorkerFreeOfTwo(c) == Cardinality(running[c]) < max_workers + 1

\* ThreadPoolExecutor(max_workers=1): a worker thread is free to take a job
WorkerFree(c) == Cardinality(running[c]) < max_workers

\* A job begins.  The lambdas read self._controller when they run: None has
\* no get_gdb_response or write (AttributeError).  GdbController.write on a
\* debugger that died raises BrokenPipeError; on a GdbController whose exit()
\* already ran, its closed pipes raise another error.
Begin(c, job) ==
    CASE job.kind \in {"poll", "write"} /\ controller[c] = NONE ->
             [job EXCEPT !.res = "AttributeError"]
      [] job.kind \in {"poll", "write"} /\ proc[c] = "exited" ->
             [job EXCEPT !.res = "ValueError"]
      [] job.kind = "write" /\ proc[c] = "crashed" ->
             [job EXCEPT !.res = "BrokenPipeError"]
      [] OTHER -> job

\* the debugger process after the job began: GdbController(command) spawns
\* it, GdbController.exit terminates it
ProcAfter(c, job) ==
    CASE job.kind = "launch" -> "live"
      [] job.kind = "exit" /\ proc[c] = "live" -> "exited"
      [] OTHER -> proc[c]

\* a worker that takes the job submitted last
WorkerTakeLast(c) ==
    /\ queue[c] # <<>>
    /\ WorkerFree(c)
    /\ LET job == queue[c][Len(queue[c])] IN
       /\ running' = [running EXCEPT ![c] = running[c] \cup {Begin(c, job)}]
       /\ proc' = [proc EXCEPT ![c] = ProcAfter(c, job)]
    /\ queue' = [queue EXCEPT ![c] = SubSeq(queue[c], 1, Len(queue[c]) - 1)]
    /\ UNCHANGED <<gdb, nctl, ctlvars, shutdown, ncrash, loopvars, callvars, taskvars,
                   ptyvars>>

\* The worker thread takes the job at the head of the executor's work queue.
WorkerTake(c) ==
    /\ queue[c] # <<>>
    /\ WorkerFree(c)
    /\ LET job == Head(queue[c]) IN
       /\ running' = [running EXCEPT ![c] = running[c] \cup {Begin(c, job)}]
       /\ proc' = [proc EXCEPT ![c] = ProcAfter(c, job)]
    /\ queue' = [queue EXCEPT ![c] = Tail(queue[c])]
    /\ UNCHANGED <<gdb, nctl, ctlvars, shutdown, ncrash, loopvars, callvars, taskvars,
                   ptyvars>>

\* what a job can return to the awaiting task
Results(c, job, polls, writes) ==
    CASE job.res # "pending" -> {Raised(job.res)}
      [] job.kind = "poll" ->
             IF proc[c] = "live" THEN {Returned(b) : b \in polls}
             ELSE {Returned(<<>>)}
      [] job.kind = "write" -> {Returned(b) : b \in writes}
      [] OTHER -> {Returned(<<>>)}

\* A job returns: its future is set and the awaiting task becomes runnable.
WorkerDone(c, polls, writes) ==
    \E job \in running[c] : \E r \in Results(c, job, polls, writes) :
        /\ running' = [running EXCEPT ![c] = running[c] \ {job}]
        /\ fut' = [fut EXCEPT ![job.t] = r]
        /\ ready' = Append(ready, job.t)
        /\ UNCHANGED <<gdb, nctl, ctlvars, queue, shutdown, envvars, cur, callvars,
                       pc, stk, self, gdbh, parsed, ret, out, viaPoll, nsub, heal,
                       ptyvars>>

\* the debugger process dies on its own
GdbDies(c) ==
    /\ proc[c] = "live"
    /\ ncrash < MaxCrash
    /\ proc' = [proc EXCEPT ![c] = "crashed"]
    /\ ncrash' = ncrash + 1
    /\ UNCHANGED <<gdb, nctl, ctlvars, exvars, loopvars, callvars, taskvars, ptyvars>>

\* GdbController.exit raises on the worker: the debugger is not terminated
ExitFails(c) ==
    /\ queue[c] # <<>>
    /\ WorkerFree(c)
    /\ Head(queue[c]).kind = "exit"
    /\ running' = [running EXCEPT ![c] =
                       running[c] \cup {[Head(queue[c]) EXCEPT !.res = "OSError"]}]
    /\ queue' = [queue EXCEPT ![c] = Tail(queue[c])]
    /\ UNCHANGED <<gdb, nctl, ctlvars, shutdown, envvars, loopvars, callvars, taskvars,
                   ptyvars>>

\* ------------------------------------------- start() on the live controller
\* gdb_controller.py 74: a holder of the current controller, whose state is
\* not DEAD, awaits its start() again
CallStart(t) ==
    /\ pc[t] = "idle"
    /\ gdb # 0
    /\ state[gdb] # DEAD
    /\ pc' = [pc EXCEPT ![t] = "start"]
    /\ stk' = [stk EXCEPT ![t] = <<"start76">>]
    /\ tool' = [tool EXCEPT ![t] = "start"]
    /\ self' = [self EXCEPT ![t] = gdb]
    /\ ready' = Append(ready, t)
    /\ parsed' = [parsed EXCEPT ![t] = <<>>]
    /\ fut' = [fut EXCEPT ![t] = NoFuture]
    /\ ret' = [ret EXCEPT ![t] = Unset]
    /\ out' = [out EXCEPT ![t] = "none"]
    /\ viaPoll' = [viaPoll EXCEPT ![t] = FALSE]
    /\ nsub' = [nsub EXCEPT ![t] = 0]
    /\ heal' = [heal EXCEPT ![t] = 0]
    /\ UNCHANGED <<gdb, nctl, ctlvars, exvars, envvars, cur, cmd, gdbh, ptyvars>>

\* gdb_controller.py 76: start() returned to that holder
StartReturn(t) ==
    /\ pc[t] = "start76"
    /\ Scheduled(t)
    /\ Finish(t, "ok")
    /\ UNCHANGED <<gdb, nctl, ctlvars, exvars, envvars, callvars,
                   self, gdbh, parsed, fut, ret, viaPoll, nsub, heal, ptyvars>>

\* ------------------------------------------------------------ specifications
TaskStep(t) ==
    \/ MayStartGdb(t) \/ MayStartGdb66(t) \/ MayStartGdb68(t) \/ MayStartGdb70(t)
    \/ Start(t) \/ StartDone(t)
    \/ Close(t) \/ CloseExited(t) \/ CloseShutdown(t)
    \/ Execute(t) \/ ExecutePolled(t) \/ ExecuteWritten(t) \/ ExecuteReturn(t)

ResetStep(t) == HardResetClose(t) \/ HardResetRestart(t) \/ HardResetReturn(t)

\* concurrent tool calls, the state-relevant batches
Next ==
    \/ \E t \in Tasks : \E name \in Tools : \E command \in Commands :
           Call(t, name, command)
    \/ \E t \in Tasks : TaskStep(t)
    \/ \E t \in Tasks : ResetStep(t)
    \/ \E c \in Ctls : WorkerTake(c)
    \/ \E c \in Ctls : WorkerDone(c, PollBatches, WriteBatches)
    \/ \E c \in Ctls : GdbDies(c)

Spec == Init /\ [][Next]_vars

\* one caller issuing execute_command calls one after the other, every batch
NextSeq ==
    \/ \E command \in Commands : Call(1, "execute_command", command)
    \/ TaskStep(1)
    \/ \E c \in Ctls : WorkerTake(c)
    \/ \E c \in Ctls : WorkerDone(c, PollBatches, AllBatches)
    \/ \E c \in Ctls : GdbDies(c)

SpecSeq == Init /\ [][NextSeq]_vars

\* concurrent tool calls, and a GdbController.exit that can fail
NextFault ==
    \/ Next
    \/ \E c \in Ctls : ExitFails(c)

SpecFault == Init /\ [][NextFault]_vars

\* one caller issuing execute_command and pwndbg_hard_reset calls one after
\* the other
NextOne ==
    \/ \E name \in Tools : \E command \in Commands : Call(1, name, command)
    \/ TaskStep(1)
    \/ ResetStep(1)
    \/ \E c \in Ctls : WorkerTake(c)
    \/ \E c \in Ctls : WorkerDone(c, PollBatches, WriteBatches)
    \/ \E c \in Ctls : GdbDies(c)

SpecOne == Init /\ [][NextOne]_vars

\* concurrent execute_command calls and start() calls on the live controller
NextApi ==
    \/ \E t \in Tasks : \E command \in Commands : Call(t, "execute_command", command)
    \/ \E t \in Tasks : CallStart(t)
    \/ \E t \in Tasks : TaskStep(t)
    \/ \E t \in Tasks : StartReturn(t)
    \/ \E c \in Ctls : WorkerTake(c)
    \/ \E c \in Ctls : WorkerDone(c, PollBatches, WriteBatches)
    \/ \E c \in Ctls : GdbDies(c)

SpecApi == Init /\ [][NextApi]_vars

\* One caller that goes on issuing execute_command calls.  The event loop
\* runs a coroutine that is ready, the worker thread takes a waiting job, and
\* every call into the debugger returns (the poll after 1 s, the write after
\* its timeout, raise_error_on_timeout=False): each is weakly fair.  The
\* death of the debugger is not.
NextLive ==
    \/ \E command \in Commands : Call(1, "execute_command", command)
    \/ TaskStep(1)
    \/ \E c \in Ctls : WorkerTake(c)
    \/ \E c \in Ctls : WorkerDone(c, PollBatches, WriteBatches)
    \/ \E c \in Ctls : GdbDies(c)

Fairness ==
    /\ WF_vars(\E command \in Commands : Call(1, "execute_command", command))
    /\ WF_vars(TaskStep(1))
    /\ \A c \in Ctls : WF_vars(WorkerTake(c))
    /\ \A c \in Ctls : WF_vars(WorkerDone(c, PollBatches, WriteBatches))

SpecLive == Init /\ [][NextLive]_vars /\ Fairness

\* One caller issuing execute_command calls one after the other, where the
\* poll of line 126 brings whatever the debugger emitted since the last call:
\* notifications and console output, whole lines and fragments.
PollRecords ==
    { NotifyStopped, NotifyRunning,
      GdbResponse(CONSOLE, <<"ab">>),
      GdbResponse(CONSOLE, <<"cd", "\n">>) }

RichPolls == SeqsUpTo(PollRecords, MaxRec)

NextPoll ==
    \/ \E command \in Commands : Call(1, "execute_command", command)
    \/ TaskStep(1)
    \/ \E c \in Ctls : WorkerTake(c)
    \/ \E c \in Ctls : WorkerDone(c, RichPolls, SeqsUpTo(Records, MaxRec))
    \/ \E c \in Ctls : GdbDies(c)

SpecPoll == Init /\ [][NextPoll]_vars

\* ---- target I/O
\* bytes the target can write: control bytes, LF, CR, a letter, DEL, and the
\* two bytes of U+00E9 in UTF-8
SampleBytes == {3, 10, 13, 65, 127, 169, 195}

\* characters of the data to send: a letter, U+00E9, U+0100, U+20AC
SampleChars == {65, 233, 256, 8364}

Chunks == SeqsUpTo(SampleBytes, MaxChunk) \ {<<>>}
Strings == SeqsUpTo(SampleChars, MaxStr)

\* the arguments of interrupt_process: the keys of CTRL_MAP and another one
Ctrls == DOMAIN CTRL_MAP \cup {"C-x"}

LifeStep(t) ==
    \/ MayStartGdb(t) \/ MayStartGdb66(t) \/ MayStartGdb68(t) \/ MayStartGdb70(t)
    \/ Start(t) \/ StartDone(t)
    \/ Close(t) \/ CloseExited(t) \/ CloseShutdown(t)

SendStep(t) == SendToProcess(t) \/ SendWrite(t) \/ SendDone(t)

ReadStep(t, chunks) == ReadFromProcess(t) \/ ReadPoll(t, chunks) \/ ReadDone(t)

InterruptStep(t) ==
    \/ InterruptProcess(t) \/ SendCtrlSet(t) \/ SendCtrlWrite(t) \/ SendCtrlRaw(t)
    \/ InterruptDone(t)

\* concurrent target I/O tool calls and hard resets on the PTY, one letter as
\* the data sent and read
NextPty ==
    \/ \E t \in Tasks : \E ctrl \in Ctrls : CallIO(t, "interrupt_process", ctrl, <<>>)
    \/ \E t \in Tasks : CallIO(t, "send_to_process", "C-c", <<65>>)
    \/ \E t \in Tasks : CallIO(t, "read_from_process", "C-c", <<>>)
    \/ \E t \in Tasks : Call(t, "pwndbg_hard_reset", "x")
    \/ \E t \in Tasks : LifeStep(t)
    \/ \E t \in Tasks : ResetStep(t)
    \/ \E t \in Tasks : SendStep(t)
    \/ \E t \in Tasks : ReadStep(t, {<<65>>})
    \/ \E t \in Tasks : InterruptStep(t)
    \/ \E c \in Ctls : WorkerTake(c)
    \/ \E c \in Ctls : WorkerDone(c, PollBatches, WriteBatches)

SpecPty == Init /\ [][NextPty]_vars

\* one caller sending every string and reading every chunk
NextIO ==
    \/ \E str \in Strings : CallIO(1, "send_to_process", "C-c", str)
    \/ CallIO(1, "read_from_process", "C-c", <<>>)
    \/ MayStartGdb(1) \/ MayStartGdb66(1) \/ Start(1) \/ StartDone(1)
    \/ SendStep(1)
    \/ ReadStep(1, Chunks)
    \/ \E c \in Ctls : WorkerTake(c)
    \/ \E c \in Ctls : WorkerDone(c, PollBatches, WriteBatches)

SpecIO == Init /\ [][NextIO]_vars

\* ===================================================================== claims

\* the jobs that begin in this step on controller c
Begun(c) == running'[c] \ running[c]

\* a command reaches the debugger: a write job begins on a live channel
Writes(c, job) == job \in Begun(c) /\ job.kind = "write" /\ job.res = "pending"

\* C1: on one controller at most one debugger-channel operation (launch,
\* poll, write, exit) is executing at any instant, whatever the concurrent
\* callers of start, execute and close do.
C1_SingleFlight == \A c \in Ctls : Cardinality(running[c]) <= 1

\* C1 witness: an operation is executing while a second one, submitted by
\* another caller, waits in the executor's queue.
C1_Witness ==
    \E c \in Ctls : \E job \in running[c] :
        /\ queue[c] # <<>>
        /\ Head(queue[c]).t # job.t

\* C2: whenever the worker writes a command to the debugger, the session
\* state is Stopped (never Dead, never Running).
C2_WriteOnlyWhenStopped ==
    [][\A c \in Ctls : \A job \in running'[c] :
           Writes(c, job) => state[c] = STOPPED]_vars


\* the poll of task t's execute returns in this step, without an exception
PollReturns(t) ==
    pc[t] = "exec_poll_wait" /\ pc'[t] # "exec_poll_wait" /\ fut[t].exc = NONE

NoStopped(resps) == \A i \in DOMAIN resps : resps[i] # NotifyStopped

\* execute returns None to its caller in this step and has submitted nothing
\* but its one poll
ReturnsAbsentAfterOnePoll(t) ==
    /\ pc'[t] = "idle"
    /\ out'[t] = "ok"
    /\ ret'[t] = Absent
    /\ nsub'[t] = 1
    /\ queue' = queue

\* C3 as stated: an execute called in state Running whose poll yields no
\* 'stopped' record returns None without writing the command, after exactly
\* one poll and no other debugger interaction.
C3_AsStated ==
    [][\A t \in Tasks :
           (PollReturns(t) /\ NoStopped(fut[t].val)) =>
               ReturnsAbsentAfterOnePoll(t)]_vars

\* C3 amended: an execute called in state Running whose poll yields no
\* 'stopped' record, the state being still Running when the poll returns,
\* returns None without writing, after exactly one poll and no other debugger
\* interaction, and leaves the state Running.
C3_AbsentWhileRunning ==
    [][\A t \in Tasks :
           (PollReturns(t) /\ NoStopped(fut[t].val) /\ state[self[t]] = RUNNING) =>
               (ReturnsAbsentAfterOnePoll(t) /\ state' = state)]_vars

\* C3 witness: a call has returned None after a poll that brought no 'stopped'
\* record, and the session is Running.
C3_Witness ==
    \E t \in Tasks :
        /\ viaPoll[t] /\ pc[t] = "idle" /\ out[t] = "ok"
        /\ ret[t] = Absent /\ nsub[t] = 1
        /\ fut[t].exc = NONE /\ NoStopped(fut[t].val)
        /\ state[self[t]] = RUNNING


\* ---- the records of one execute
\* the write of task t's execute returns in this step, without an exception
WriteReturns(t) ==
    pc[t] = "exec_write_wait" /\ pc'[t] # "exec_write_wait" /\ fut[t].exc = NONE

\* the records the debugger emitted to this call, in order (the poll's, then
\* the command's), and the list execute hands back
Emitted(t) == parsed[t] \o fut[t].val
Handed(t) == parsed'[t]

Max(S) == CHOOSE x \in S : \A y \in S : y <= x

\* the places of the 'running' and 'stopped' notifications of a batch
Naming(resps) == {i \in DOMAIN resps : resps[i] \in {NotifyRunning, NotifyStopped}}

LastNamed(resps) ==
    IF resps[Max(Naming(resps))] = NotifyRunning THEN RUNNING ELSE STOPPED

\* C4: after a batch that carries 'running' / 'stopped' notifications the
\* state is the one the last of them names ('stopped' -> Stopped, 'running'
\* -> Running), for the poll's batch and for the whole batch of the call.
C4_LastNotificationWins ==
    [][\A t \in Tasks :
           /\ (PollReturns(t) /\ Naming(fut[t].val) # {}) =>
                  state'[self[t]] = LastNamed(fut[t].val)
           /\ (WriteReturns(t) /\ Naming(Emitted(t)) # {}) =>
                  state'[self[t]] = LastNamed(Emitted(t))]_vars

\* a step in which the state of controller c may change
StateEvent(c) ==
    \E t \in Tasks :
        /\ self[t] = c
        /\ pc'[t] # pc[t]
        /\ \/ pc[t] = "start_wait"
           \/ pc[t] = "close_shutdown"
           \/ pc[t] = "exec_write_wait" /\ fut[t].exc = "BrokenPipeError"
           \/ PollReturns(t) /\ Naming(fut[t].val) # {}
           \/ WriteReturns(t) /\ Naming(Emitted(t)) # {}

\* C5: the state changes only on a successful start, on a 'running' or
\* 'stopped' Notify record, on a broken channel, or on close; records of any
\* other kind or message never change it.
C5_OnlyNotifyDrivesState ==
    [][\A c \in Ctls : state'[c] # state[c] => StateEvent(c)]_vars

\* ---- the merge, stated on the emitted records
IsConsole(r) == r.mitype = CONSOLE
IsFragment(r) == IsConsole(r) /\ ~endswith_nl(r.message)
IsClosing(r) == IsConsole(r) /\ endswith_nl(r.message)

\* the lines the closed runs make: a run is the unterminated Console records
\* since the previous newline-terminated Console record, buf its text so far
RECURSIVE ClosedLines(_, _, _)
ClosedLines(resps, i, buf) ==
    IF i > Len(resps) THEN <<>>
    ELSE IF IsFragment(resps[i])
         THEN ClosedLines(resps, i + 1, buf \o resps[i].message)
    ELSE IF IsClosing(resps[i])
         THEN <<strip(buf \o resps[i].message)>> \o ClosedLines(resps, i + 1, <<>>)
    ELSE ClosedLines(resps, i + 1, buf)

\* the text of the run no record closes
RECURSIVE OpenText(_, _, _)
OpenText(resps, i, buf) ==
    IF i > Len(resps) THEN buf
    ELSE IF IsFragment(resps[i]) THEN OpenText(resps, i + 1, buf \o resps[i].message)
    ELSE IF IsClosing(resps[i]) THEN OpenText(resps, i + 1, <<>>)
    ELSE OpenText(resps, i + 1, buf)

RECURSIVE Texts(_)
Texts(resps) ==
    IF resps = <<>> THEN <<>> ELSE <<Head(resps).message>> \o Texts(Tail(resps))

ConsoleTexts(resps) == Texts(SelectSeq(resps, IsConsole))

\* C6: every run of unterminated Console records closed by a newline-
\* terminated Console record comes back as exactly one Console record, the
\* trimmed concatenation of the fragments and the closing one, in order; the
\* fragments are no records of their own (a run that nothing closes makes at
\* most one more Console record, after the closed ones).
C6_RunsMergeIntoOneLine ==
    [][\A t \in Tasks : WriteReturns(t) =>
           LET lines == ClosedLines(Emitted(t), 1, <<>>)
               open == OpenText(Emitted(t), 1, <<>>)
               got == ConsoleTexts(Handed(t))
           IN  \/ got = lines
               \/ open # <<>> /\ got = lines \o <<strip(open)>>]_vars

\* C6 witness: "ab" then "cd\n" came back as the single line "abcd".
C6_Witness ==
    \E t \in Tasks :
        /\ fut[t] = Returned(<<GdbResponse(CONSOLE, <<"ab">>),
                               GdbResponse(CONSOLE, <<"cd", "\n">>)>>)
        /\ ret[t] = List(<<GdbResponse(CONSOLE, <<"ab", "cd">>)>>)

IsNotify(r) == r.mitype = NOTIFY
IsKeptNotify(r) == IsNotify(r) /\ r.message # ParamChangedMsg

\* C7: the list a successful execute returns holds no Result record and no
\* Notify record made from a cmd-param-changed notification: its Notify
\* records are the other Notify records of the batch.
C7_NoResultNoParamChanged ==
    [][\A t \in Tasks : WriteReturns(t) =>
           /\ \A i \in DOMAIN Handed(t) : Handed(t)[i].mitype # RESULT
           /\ SelectSeq(Handed(t), IsNotify) = SelectSeq(Emitted(t), IsKeptNotify)]_vars

\* no Console record follows place i
LastConsole(resps, i) == \A j \in DOMAIN resps : j > i => ~IsConsole(resps[j])

\* the texts in the order the debugger emitted them: a closed run at the place
\* of its closing record, an open run at the place of its last fragment, every
\* other surviving record at its own place
RECURSIVE EmittedOrder(_, _, _)
EmittedOrder(resps, i, buf) ==
    IF i > Len(resps) THEN <<>>
    ELSE LET r == resps[i] IN
         IF IsFragment(r)
         THEN IF LastConsole(resps, i) /\ buf \o r.message # <<>>
              THEN <<strip(buf \o r.message)>> \o EmittedOrder(resps, i + 1, <<>>)
              ELSE EmittedOrder(resps, i + 1, buf \o r.message)
         ELSE IF IsClosing(r)
         THEN <<strip(buf \o r.message)>> \o EmittedOrder(resps, i + 1, <<>>)
         ELSE IF r.mitype = RESULT \/ (IsNotify(r) /\ ~IsKeptNotify(r))
         THEN EmittedOrder(resps, i + 1, buf)
         ELSE IF r.mitype = LOG
         THEN <<strip(r.message)>> \o EmittedOrder(resps, i + 1, buf)
         ELSE <<r.message>> \o EmittedOrder(resps, i + 1, buf)

\* C8: the texts of the returned records are in the order the debugger
\* emitted them: no Console text comes after a record emitted after the place
\* where its run ended, and an open run stands at its last fragment's place.
C8_EmittedOrderKept ==
    [][\A t \in Tasks : WriteReturns(t) =>
           Texts(Handed(t)) = EmittedOrder(Emitted(t), 1, <<>>)]_vars

\* ---- the broken channel
Diagnostic == List(<<GdbResponse(RESULT, ExitedMsg)>>)

\* C9: the execute_command that follows a call ended by a broken channel
\* sends its command on another, newly started controller in state Stopped
\* whose debugger process was launched, the old controller's handle and PTY
\* descriptors being released; it returns the records of a write, never None
\* and never an exception.
C9_NextCallHeals ==
    \A t \in Tasks : heal[t] # 0 =>
        /\ pc[t] = "exec_write_wait" =>
              /\ self[t] # heal[t]
              /\ self[t] = gdb
              /\ state[self[t]] = STOPPED
              /\ proc[self[t]] # "none"
              /\ state[heal[t]] = DEAD
              /\ controller[heal[t]] = NONE
              /\ pty_master[heal[t]] = NONE
              /\ pty_slave[heal[t]] = NONE
        /\ (pc[t] = "idle" /\ out[t] # "none") =>
              /\ out[t] = "ok"
              /\ ret[t].kind = "list"
              /\ nsub[t] = 1
              /\ self[t] # heal[t]

\* C9 witness: the call after a broken channel got its command answered by
\* the debugger of a new controller.
C9_Witness ==
    \E t \in Tasks :
        /\ heal[t] # 0 /\ pc[t] = "idle" /\ out[t] = "ok"
        /\ fut[t].exc = NONE /\ ret[t].kind = "list"
        /\ self[t] # heal[t] /\ proc[self[t]] = "live"

\* the write of task t's execute raises BrokenPipeError in this step
WriteBreaks(t) ==
    pc[t] = "exec_write_wait" /\ pc'[t] # "exec_write_wait"
        /\ fut[t].exc = "BrokenPipeError"

\* C10: when the write fails with a broken channel, execute raises nothing,
\* sets the state to Dead and returns the one diagnostic record; the call is
\* over, so no record of it (the poll's included) updates the state later.
C10_BrokenPipeIsAnswered ==
    [][\A t \in Tasks : WriteBreaks(t) =>
           /\ pc'[t] = "idle"
           /\ out'[t] = "ok"
           /\ ret'[t] = Diagnostic
           /\ state'[self[t]] = DEAD]_vars

\* C10 witness: a call that had polled a 'stopped' record ended on a broken
\* channel with the diagnostic, the state Dead.
C10_Witness ==
    \E t \in Tasks :
        /\ pc[t] = "idle" /\ fut[t].exc = "BrokenPipeError"
        /\ viaPoll[t] /\ parsed[t] = <<NotifyStopped>>
        /\ ret[t] = Diagnostic /\ out[t] = "ok"
        /\ state[self[t]] = DEAD

\* ---- close
\* task t's close() runs its first lines in this step
CloseCalled(t) == pc[t] = "close" /\ pc'[t] # "close"

Released(c) ==
    controller[c] = NONE /\ pty_master[c] = NONE /\ pty_slave[c] = NONE

\* C11: a close() on a controller that a completed close() has closed before
\* returns without an error and changes nothing: the state stays Dead, the
\* process handle and both PTY descriptors stay released, and nothing is
\* given to the worker.
C11_SecondCloseIsNoOp ==
    [][\A t \in Tasks :
           (CloseCalled(t) /\ started[self[t]] = "False") =>
               /\ state[self[t]] = DEAD /\ Released(self[t])
               /\ pc'[t] = Head(stk[t]) /\ out' = out
               /\ ctlvars' = ctlvars /\ exvars' = exvars /\ envvars' = envvars]_vars

\* C11 witness: pwndbg_hard_reset closed its controller, and the close() of
\* the may_start_gdb that follows has returned on the same controller.
C11_Witness ==
    \E t \in Tasks :
        /\ pc[t] = "msg68" /\ stk[t] = <<"hr260">>
        /\ self[t] = gdbh[t] /\ started[self[t]] = "False"
        /\ state[self[t]] = DEAD /\ shutdown[self[t]] /\ Released(self[t])

\* close() returns to its caller in this step
CloseReturns(t) ==
    pc[t] \in {"close", "close_shutdown"} /\ stk[t] # <<>> /\ pc'[t] = Head(stk[t])

\* C12: close() called on a controller whose state is Dead (never started,
\* start in progress, marked Dead by a broken channel, or closed before)
\* raises no error and ends with the state Dead.
C12_CloseSafeWhenDead ==
    [][\A t \in Tasks :
           /\ (CloseCalled(t) /\ state[self[t]] = DEAD) => pc'[t] # "idle"
           /\ CloseReturns(t) => state'[self[t]] = DEAD]_vars

\* close() completes in this step: its last lines (285-286) run
CloseCompletes(t) == pc[t] = "close_shutdown" /\ pc'[t] # "close_shutdown"

\* the exit that close() awaited has raised, and close() goes on in this step
ExitRaised(t) == pc[t] = "close_wait" /\ pc'[t] # "close_wait" /\ fut[t].exc # NONE

\* C13: when close() completes on a started controller, the debugger process
\* has been told to exit, the handle is cleared, both PTY descriptors are
\* closed and cleared, the worker is shut down and the state is Dead; when
\* terminating the debugger fails, the PTY descriptors are released all the
\* same.
C13_CloseReleasesAll ==
    [][\A t \in Tasks :
           /\ CloseCompletes(t) =>
                  /\ proc'[self[t]] \in {"exited", "crashed"}
                  /\ controller'[self[t]] = NONE
                  /\ pty_master'[self[t]] = NONE /\ pty_slave'[self[t]] = NONE
                  /\ shutdown'[self[t]]
                  /\ state'[self[t]] = DEAD
           /\ ExitRaised(t) =>
                  pty_master'[self[t]] = NONE /\ pty_slave'[self[t]] = NONE]_vars

\* C13 witness: a quit command was answered with 'running' records, so that
\* execute called close() in state Running; close() has completed.
C13_Witness ==
    \E t \in Tasks :
        /\ pc[t] = "exec194" /\ update_gdb_state(parsed[t]) = RUNNING
        /\ proc[self[t]] = "exited" /\ Released(self[t])
        /\ shutdown[self[t]] /\ state[self[t]] = DEAD

\* ---- may_start_gdb under concurrent tool calls
\* every live debugger process is the one of the current controller
NoLeak == \A c \in Ctls : proc[c] = "live" => c = gdb

\* a tool call that may_start_gdb has just handed its controller
Handled(t) == pc[t] \in {"ec109", "hr258", "sp155", "rp205", "ip221"}

NoDeadHandle == \A t \in Tasks : Handled(t) => state[gdbh[t]] # DEAD

\* C14: under concurrent tool calls every launched debugger process is the
\* current controller's or has been terminated, and may_start_gdb never
\* hands a call a controller whose state is Dead.
C14_NoLeakNoDeadHandle == NoLeak /\ NoDeadHandle

\* ---- the PTY
\* the thread of task t's interrupt_process writes its control byte to the
\* PTY master in this step
CtrlWritten(t) == pc[t] = "sc223" /\ nwrote'[t] > nwrote[t]

\* C15: every control byte interrupt_process writes reaches the PTY master
\* while the slave terminal is in its signal-generating mode, whatever the
\* concurrent interrupt_process calls do.
C15_CtrlByteIsSignal ==
    [][\A t \in Tasks : CtrlWritten(t) => pty_mode[self[t]] = "cooked"]_vars

\* the thread of task t's send_to_process writes to the PTY master, or the
\* thread of its read_from_process reads from it, in this step
DataWritten(t) == pc[t] = "sw209" /\ pc'[t] # "sw209" /\ fut'[t].exc = NONE
DataRead(t) == pc[t] = "rd245" /\ pc'[t] # "rd245" /\ chunk'[t] # <<>>

\* C16: no send_to_process write and no read_from_process read happens
\* while the slave terminal is in signal-generating (non-raw) mode.
C16_ToggleIsExclusive ==
    [][\A t \in Tasks :
           (DataWritten(t) \/ DataRead(t)) => pty_mode[self[t]] = "raw"]_vars

\* an interrupt_process call is at work on controller c's terminal
Interrupting(c) ==
    \E t \in Tasks : self[t] = c /\ pc[t] \in {"sc221", "sc223", "sc225"}

\* C17: whenever no interrupt_process is at work on the open PTY of a
\* session, its slave terminal is in raw mode, also after failed and after
\* overlapping interrupts.
C17_RawWhenNoInterrupt ==
    \A c \in Ctls :
        (pty_slave[c] # NONE /\ ~Interrupting(c)) => pty_mode[c] = "raw"

\* C17 witness: an interrupt whose write of the control byte failed, after
\* the attributes had been restored, has returned; another interrupt on the
\* same terminal has completed, and the terminal is raw.
C17_Witness ==
    \E t, u \in Tasks :
        /\ tool[t] = "interrupt_process" /\ pc[t] = "idle" /\ out[t] = "OSError"
        /\ tool[u] = "interrupt_process" /\ pc[u] = "idle" /\ out[u] = "ok"
        /\ nwrote[u] = 1
        /\ t # u /\ self[t] = self[u] /\ pty_slave[self[t]] # NONE
        /\ pty_mode[self[t]] = "raw"

\* ---- the bytes read and sent
\* a control byte: below 0x20, or DEL
IsControl(b) == b < 32 \/ b = 127

\* no byte of the chunk is a control byte other than CR and LF
Printable(bs) == \A i \in DOMAIN bs : ~IsControl(bs[i]) \/ bs[i] = 13 \/ bs[i] = 10

\* read_from_process answers for a non-empty chunk in this step
ReadAnswered(t) ==
    pc[t] = "rp206" /\ pc'[t] = "idle" /\ fut[t].exc = NONE /\ chunk[t] # <<>>

\* C18: a non-empty chunk is rendered as text exactly when none of its bytes
\* is a control byte other than CR and LF (DEL 0x7f is one) and it decodes;
\* otherwise as the byte dump of the whole chunk; the text equals the bytes
\* read.
C18_TextIffPrintable ==
    [][\A t \in Tasks : ReadAnswered(t) =>
           /\ (reply'[t].kind = "text") <=>
                  (Printable(chunk[t]) /\ decode(chunk[t]).ok)
           /\ (reply'[t].kind # "text") => reply'[t] = Dump(hexdump(chunk[t]))
           /\ (reply'[t].kind = "text") =>
                  encode_utf8(reply'[t].val) = chunk[t]]_vars

\* send_to_process answers in this step
SendAnswered(t) == pc[t] = "sp160" /\ pc'[t] = "idle" /\ fut[t].exc = NONE

\* C19: the count the send_to_process tool reports is the number of bytes
\* written to the PTY master, for every string.
C19_CountIsBytesWritten ==
    [][\A t \in Tasks : SendAnswered(t) => reply'[t].val = <<nwrote[t]>>]_vars

\* ---- pwndbg_hard_reset
\* pwndbg_hard_reset returns in this step
ResetReturns(t) == pc[t] = "hr260" /\ pc'[t] = "idle"

Closed(c) == state[c] = DEAD /\ Released(c) /\ proc[c] # "live"

\* C20: when pwndbg_hard_reset returns, the current controller was
\* constructed during the call (after the one the call closed), is in
\* state Stopped with a launched debugger process and an open PTY, and
\* every controller before it, the one current before the call included, is
\* closed: state Dead, handle and PTY released, process not alive.
C20_ResetGivesNewSession ==
    [][\A t \in Tasks : ResetReturns(t) =>
           /\ gdb > gdbh[t] /\ gdbh[t] > 0
           /\ state[gdb] = STOPPED
           /\ controller[gdb] # NONE /\ proc[gdb] # "none"
           /\ pty_master[gdb] # NONE /\ pty_slave[gdb] # NONE
           /\ \A c \in 1..(gdb - 1) : Closed(c)]_vars

\* C20 witness: a hard reset of a session whose debugger had died has
\* returned: the dead controller and the one the call was handed are
\* closed, a third one is current.
C20_Witness ==
    \E t \in Tasks :
        /\ tool[t] = "pwndbg_hard_reset" /\ pc[t] = "idle" /\ out[t] = "ok"
        /\ gdb = 3 /\ gdbh[t] = 2 /\ proc[1] = "crashed" /\ proc[2] = "exited"
        /\ state[gdb] = STOPPED /\ proc[gdb] = "live"
        /\ Closed(1) /\ Closed(2)

\* ---- quit
\* execute_command returns the records of a written quit command in this step
QuitReturns(t) ==
    /\ tool[t] = "execute_command" /\ cmd[t] = "quit"
    /\ pc[t] # "idle" /\ pc'[t] = "idle"
    /\ out'[t] = "ok" /\ ret'[t].kind = "list" /\ ret'[t] # Diagnostic

\* a tool call is handed its controller by may_start_gdb in this step
HandedOver(t) == ~Handled(t) /\ pc'[t] \in {"ec109", "hr258", "sp155", "rp205", "ip221"}

Submitted(c) ==
    IF Len(queue'[c]) > Len(queue[c])
    THEN {queue'[c][i] : i \in (Len(queue[c]) + 1)..Len(queue'[c])}
    ELSE {}

\* the jobs of controller c that wait for the worker, in the order of their
\* submission, are kept in that order by a step that submits
KeepsOrder(c) ==
    Submitted(c) # {} =>
        /\ Len(queue'[c]) = Len(queue[c]) + 1
        /\ SubSeq(queue'[c], 1, Len(queue[c])) = queue[c]

\* C22: the debugger operations of one controller begin in the order in
\* which they were submitted: the operation that begins is the one submitted
\* earliest among those waiting (none submitted later overtakes it), while
\* no other operation of that controller is in progress; so of two writes
\* the one submitted first is written first.
C22_WritesInSubmissionOrder ==
    [][\A c \in Ctls :
           /\ KeepsOrder(c)
           /\ \A job \in Begun(c) :
                  /\ queue[c] # <<>>
                  /\ Head(queue[c]).kind = job.kind /\ Head(queue[c]).t = job.t
                  /\ queue'[c] = Tail(queue[c])
                  /\ running[c] = {}]_vars

\* C22 witness: the write of one execute call is in progress while the write
\* of another call on the same controller, submitted after it, waits.
C22_Witness ==
    \E c \in Ctls : \E job \in running[c] :
        /\ job.kind = "write" /\ queue[c] # <<>>
        /\ Head(queue[c]).kind = "write" /\ Head(queue[c]).t # job.t
        /\ self[job.t] = c /\ self[Head(queue[c]).t] = c

\* ---- a live session is reused
\* everything of the sessions: the current controller, the controllers'
\* fields, executors and terminal modes, the debugger processes
session == <<gdb, nctl, ctlvars, exvars, envvars, pty_mode>>

\* task t's may_start_gdb takes a step while the current session is live
ReuseStep(t) ==
    /\ pc[t] \in {"may_start_gdb", "msg66"} /\ pc'[t] # pc[t]
    /\ gdb # 0 /\ state[gdb] \in {STOPPED, RUNNING}

\* task t's start() runs in this step on a controller that is not Dead
StartOnLive(t) == pc[t] = "start" /\ pc'[t] # "start" /\ state[self[t]] # DEAD

\* C23: while a session exists in state Stopped or Running, may_start_gdb
\* returns its controller and changes nothing of any session (no PTY is
\* opened, nothing is given to a worker, no process is launched, the state
\* stays); start() on a controller that is not Dead returns at once and
\* changes nothing either.
C23_LiveSessionIsReused ==
    [][\A t \in Tasks :
           /\ ReuseStep(t) =>
                  /\ session' = session
                  /\ pc[t] = "may_start_gdb" => pc'[t] = "msg66"
                  /\ pc[t] = "msg66" =>
                         /\ pc'[t] = Head(stk[t])
                         /\ gdbh'[t] = gdb
           /\ StartOnLive(t) =>
                  /\ session' = session
                  /\ pc'[t] = Head(stk[t]) /\ out' = out]_vars

\* C23 witness: start() has returned on the running session, which is the
\* first controller still, and an execute_command of the other caller was
\* handed that controller.
C23_Witness ==
    \E t \in Tasks : \E u \in Tasks \ {t} :
        /\ tool[t] = "start" /\ pc[t] = "idle" /\ out[t] = "ok"
        /\ nctl = 1 /\ gdb = 1 /\ self[t] = 1
        /\ state[1] = RUNNING /\ proc[1] = "live"
        /\ pc[u] = "ec109" /\ gdbh[u] = 1

\* ---- the debugger dies
\* C24: once the debugger process of a controller has died, the repeated
\* execute calls lead to that controller's state being Dead.
C24_DeathLeadsToDead ==
    \A c \in Ctls : (proc[c] = "crashed") ~> (state[c] = DEAD)

\* ---- the records of the poll
IsPrefix(a, b) == Len(a) <= Len(b) /\ SubSeq(b, 1, Len(a)) = a

\* the poll of task t's execute, called in state Running, returns in this
\* step with records whose last 'running' / 'stopped' notification is 'stopped'
PollStops(t) ==
    /\ PollReturns(t) /\ state[self[t]] = RUNNING
    /\ Naming(fut[t].val) # {} /\ LastNamed(fut[t].val) = STOPPED

\* the command's records continue a Console run the poll left open
Continued(polled, answered) ==
    OpenText(polled, 1, <<>>) # <<>> /\ \E j \in DOMAIN answered : IsConsole(answered[j])

\* C25: an execute called in state Running whose poll yields a 'stopped'
\* notification sets the state to Stopped and gives the write of its command
\* to the worker in the same call, keeping the poll's records; when the write
\* returns, the texts of the poll's records (those the merge keeps) stand at
\* the head of the returned list, ahead of every record of the command.
C25_PollRecordsComeFirst ==
    [][\A t \in Tasks :
           /\ PollStops(t) =>
                  /\ state'[self[t]] = STOPPED
                  /\ pc'[t] = "exec_write_wait"
                  /\ queue'[self[t]] = Append(queue[self[t]], Job("write", t))
                  /\ parsed'[t] = fut[t].val
           /\ (WriteReturns(t) /\ viaPoll[t] /\ ~Continued(parsed[t], fut[t].val)) =>
                  IsPrefix(EmittedOrder(parsed[t], 1, <<>>), Texts(Handed(t)))]_vars

====
